---- MODULE Spec2Model ----
(***************************************************************************)
(* Model of achandswim.py: the ACH-to-SWIM conversion job.                 *)
(*                                                                         *)
(* A line of the input file is a record of the fixed-position fields the   *)
(* program slices out of it.  `pos` is the line's number in the input, so  *)
(* that two lines with equal text are still two lines.                     *)
(***************************************************************************)
EXTENDS Integers, Sequences, FiniteSets, TLC

VARIABLES
    pc,                 \* position of run(): the stage about to execute
    rptonly,            \* apwx.args.RPTONLY_YN
    infile,             \* the lines read from INPUT_ACH_FILE_FULLPATH so far
    current_batch,      \* parse_ach_file local
    onus_data,          \* parse_ach_file local: <<>> or <<candidate>>
    is_onus,            \* parse_ach_file local: IntZero or a sequence number
    newach_data,        \* script_data.newach_data
    all_onus_data,      \* script_data.all_onus_data
    file_header,        \* script_data.file_header
    entry_hash_cnt,     \* script_data.entry_hash_cnt
    total_credit,       \* script_data.total_credit
    total_debit,        \* script_data.total_debit
    total_record_cnt,   \* script_data.total_record_cnt
    newfile,            \* content of OUTPUT_ACH_FILE_FULLPATH (<<>>: not written)
    refile,             \* what a second call of rebuild_file returned (<<>>: none)
    swim_file_info,     \* script_data.swim_file_info
    holddate,           \* script_data.holddate
    swm_lines,          \* script_data.swm_lines
    swimfile,           \* content of OUTPUT_SWIM_FILE_FULLPATH (<<>>: not written)
    dbh,                \* calls made on the database connection, in order
    stages,             \* stages of run() executed so far, in order
    rtnbr_in,           \* validate_route_number: the string it is called with
    route_valid         \* validate_route_number: what the call came to

parseVars == <<infile, current_batch, onus_data, is_onus, newach_data,
               all_onus_data, file_header>>
totalVars == <<entry_hash_cnt, total_credit, total_debit, total_record_cnt>>
achVars   == <<newfile, refile>>
swimVars  == <<swim_file_info, holddate, swm_lines, swimfile>>
routeVars == <<rtnbr_in, route_valid>>
vars == <<pc, rptonly, parseVars, totalVars, achVars, swimVars, dbh, stages,
          routeVars>>

----------------------------------------------------------------------------
(* Bounds of the model. *)

MaxLines == 4        \* lines of an unconstrained input file
MaxWFLines == 7      \* lines of a well-formed input file
MaxRerunLines == 5   \* lines of an input file rebuilt twice
MaxBulk == 101       \* detail lines of the large batch of a bulk input file
BulkSpread == 2      \* how far below MaxBulk the large batch may stop
MaxTail == 2         \* detail lines of the batch after the large batch

(* Program constants. *)

FTFCU_ROUTENBR == 321180379     \* default of the FTFCU_ROUTENBR argument
HashDigits == 10                \* str(n)[-10:]: the rightmost 10 digits
BlockingFactor == 10            \* records per block

----------------------------------------------------------------------------
(* Lines. *)

\* Python's integer 0 (falsy), and the empty string '' (falsy) where a
\* 7-character field is expected; any other value of a last7 field is a
\* non-empty string and truthy, "0000000" included.
IntZero == -2
EmptyStr == -1
Truthy(x) == x >= 0

\* typ: which branch of the classifier the line takes ("101", "9", "8", "5",
\*      "7", "6", or "other" for a line no branch takes);
\* last7: positions 88-94 (batch number of a '5'/'8', sequence number of a '6');
\* bad: parse_ach_detail_record raises on the line (shorter than 79
\*      characters, or a non-numeric amount);
\* nines: the line is '9' * 94.
BlankLine ==
    [pos |-> 0, typ |-> "other", last7 |-> EmptyStr,
     tc |-> 0, rtnbr |-> 0, acct |-> 0, amt |-> 0, bad |-> FALSE,
     atc |-> 0, marker |-> FALSE, digits3 |-> FALSE, nines |-> FALSE,
     scc |-> 0, cid |-> <<>>, odfi |-> 0,
     bcount |-> 0, blocks |-> 0, cnt |-> 0, hash |-> <<0, 0>>, debit |-> 0,
     credit |-> 0]

\* script_data.file_header before a '101' line is read: the empty string.
NoHeader == [BlankLine EXCEPT !.typ = ""]

FileHeaderLine == [BlankLine EXCEPT !.typ = "101"]

BatchHeaderLine(scc, cid, odfi, nbr) ==
    [BlankLine EXCEPT !.typ = "5", !.scc = scc, !.cid = cid, !.odfi = odfi,
                      !.last7 = nbr]

DetailLine(tc, rtnbr, acct, amt, seq) ==
    [BlankLine EXCEPT !.typ = "6", !.tc = tc, !.rtnbr = rtnbr, !.acct = acct,
                      !.amt = amt, !.last7 = seq]

AddendaLine(atc, marker, digits3, seq) ==
    [BlankLine EXCEPT !.typ = "7", !.atc = atc, !.marker = marker,
                      !.digits3 = digits3, !.last7 = seq]

BatchControlLine(scc, cnt, hash, debit, credit, cid, odfi, nbr) ==
    [BlankLine EXCEPT !.typ = "8", !.scc = scc, !.cnt = cnt, !.hash = hash,
                      !.debit = debit, !.credit = credit, !.cid = cid,
                      !.odfi = odfi, !.last7 = nbr]

FileControlLine(bcount, blocks, cnt, hash, debit, credit) ==
    [BlankLine EXCEPT !.typ = "9", !.bcount = bcount, !.blocks = blocks,
                      !.cnt = cnt, !.hash = hash, !.debit = debit,
                      !.credit = credit]

\* extra_row = '9' * 94
PaddingLine == [BlankLine EXCEPT !.typ = "9", !.nines = TRUE]

----------------------------------------------------------------------------
(* Numbers wider than TLC's 32-bit integers: an entry-hash sum is *)
(* kept as <<hi, lo>>, the number hi * 10^5 + lo with 0 <= lo < 10^5.     *)

Limb == 10 ^ (HashDigits \div 2)

Wide(n) == <<n \div Limb, n % Limb>>

WideAdd(a, b) ==
    <<a[1] + b[1] + (a[2] + b[2]) \div Limb, (a[2] + b[2]) % Limb>>

\* a modulo 10^10
WideMod(a) == <<a[1] % Limb, a[2]>>

\* A slip: the string is not cut at all.
Rightmost10Uncut(a) == a

\* str(n)[-10:], read back with int(), of a number n >= 0
Rightmost10(a) == <<a[1] % Limb, a[2]>>

----------------------------------------------------------------------------
(* Sequence helpers. *)

\* Sums of a sequence of numbers, by halves (the sequences get long).
RECURSIVE SumRange(_, _, _)
SumRange(s, lo, hi) ==
    IF lo > hi THEN 0
    ELSE IF lo = hi THEN s[lo]
    ELSE SumRange(s, lo, (lo + hi) \div 2) + SumRange(s, (lo + hi) \div 2 + 1, hi)

SumSeq(s) == SumRange(s, 1, Len(s))

RECURSIVE WideSumRange(_, _, _)
WideSumRange(s, lo, hi) ==
    IF lo > hi THEN Wide(0)
    ELSE IF lo = hi THEN s[lo]
    ELSE WideAdd(WideSumRange(s, lo, (lo + hi) \div 2),
                 WideSumRange(s, (lo + hi) \div 2 + 1, hi))

WideSumSeq(s) == WideSumRange(s, 1, Len(s))

\* The largest element of a set of numbers, 0 for the empty set.
MaxOf(S) == IF S = {} THEN 0 ELSE CHOOSE i \in S : \A j \in S : j <= i
MinOf(S) == IF S = {} THEN 0 ELSE CHOOSE i \in S : \A j \in S : i <= j

RECURSIVE Flatten(_)
Flatten(ss) == IF ss = <<>> THEN <<>> ELSE Head(ss) \o Flatten(Tail(ss))

----------------------------------------------------------------------------
(* parse_ach_detail_record *)

\* The fields of a detail line; the caller checks line.bad first, the
\* case where the slicing or int() raises.
parse_ach_detail_record(line) ==
    [rtnbr |-> line.rtnbr,
     acctnbr |-> line.acct,
     ach_tc |-> line.tc,
     amt |-> line.amt,
     trace_nbr |-> line.last7,
     sequence_nbr |-> line.last7]

\* A slip: the routing number is left out of the pattern.
IsOnUsDetailAnyRoute(line) == line.tc \in {22, 32}

\* re.match(f'^6[23]2{ftfcu_routenbr}', line)
IsOnUsDetail(line) ==
    /\ line.tc \in {22, 32}
    /\ line.rtnbr = FTFCU_ROUTENBR

\* re.match(r'^705(.+)\d{3}$', line)
MatchesDescription(line) == line.atc = 5 /\ line.digits3

----------------------------------------------------------------------------
(* parse_ach_file: one iteration of `for line in achfile`. *)

\* The state the loop body reads and writes; `result` is how the iteration
\* ends: "continue", "break" (the '9' branch) or "raise" (an exception,
\* caught by the function's except clause).
ParseState ==
    [current_batch |-> current_batch, onus_data |-> onus_data,
     is_onus |-> is_onus, newach_data |-> newach_data,
     all_onus_data |-> all_onus_data, file_header |-> file_header,
     result |-> "continue"]

\* onus_data = [rtnbr, acctnbr, ach_tc, amt, trace_nbr, line]
Candidate(line) ==
    LET f == parse_ach_detail_record(line)
    IN  [rtnbr |-> f.rtnbr, acctnbr |-> f.acctnbr, ach_tc |-> f.ach_tc,
         amt |-> f.amt, trace_nbr |-> f.trace_nbr, line |-> line,
         description |-> 0]

\* description = match.group(1).strip()[:128]: the text of the addenda
\* line between "705" and its last three digits, named by the line.
Description(line) == line.pos

\* last_line = onus_data.pop(); current_batch.append(last_line);
\* onus_data = []; is_onus = 0
FlushCandidate(p) ==
    [p EXCEPT !.current_batch = Append(@, p.onus_data[1].line),
              !.onus_data = <<>>,
              !.is_onus = IntZero]

\* line.startswith('101')
OnFileHeader(p, line) == [p EXCEPT !.file_header = line]

\* line.startswith('9')
OnFileControl(p, line) == [p EXCEPT !.result = "break"]

\* line.startswith('8')
OnBatchControl(p, line) ==
    IF p.current_batch = <<>> THEN p
    ELSE LET q == IF Truthy(p.is_onus) /\ p.onus_data # <<>>
                  THEN FlushCandidate(p) ELSE p
         IN  [q EXCEPT !.newach_data = Append(@, q.current_batch),
                       !.current_batch = <<>>]

\* line.startswith('5')
OnBatchHeader(p, line) == [p EXCEPT !.current_batch = <<line>>]

\* A slip: the addenda that finalizes a candidate is kept in the batch too.
OnAddendaKeepsAddenda(p, line) ==
    IF ~Truthy(p.is_onus) \/ ~line.marker \/ p.onus_data = <<>>
    THEN IF ~Truthy(p.is_onus) THEN [p EXCEPT !.current_batch = Append(@, line)]
         ELSE IF p.onus_data = <<>> THEN [p EXCEPT !.result = "raise"]
         ELSE [FlushCandidate(p) EXCEPT !.current_batch = Append(@, line)]
    ELSE IF MatchesDescription(line) THEN
        [p EXCEPT !.all_onus_data =
                      Append(@, [p.onus_data[1] EXCEPT
                                     !.description = Description(line)]),
                  !.current_batch = Append(@, line),
                  !.onus_data = <<>>,
                  !.is_onus = IntZero]
    ELSE p

\* line.startswith('7')
OnAddenda(p, line) ==
    IF ~Truthy(p.is_onus) THEN
        [p EXCEPT !.current_batch = Append(@, line)]
    ELSE IF ~line.marker THEN
        IF p.onus_data = <<>> THEN [p EXCEPT !.result = "raise"]
        ELSE LET q == FlushCandidate(p)
             IN  [q EXCEPT !.current_batch = Append(@, line)]
    ELSE IF MatchesDescription(line) THEN
        [p EXCEPT !.all_onus_data =
                      Append(@, [p.onus_data[1] EXCEPT
                                     !.description = Description(line)]),
                  !.onus_data = <<>>,
                  !.is_onus = IntZero]
    ELSE p

\* line.startswith('6')
OnDetail(p, line) ==
    LET q == IF Truthy(p.is_onus) /\ p.onus_data # <<>>
             THEN FlushCandidate(p) ELSE p
    IN  IF IsOnUsDetail(line) THEN
            IF line.bad THEN [q EXCEPT !.result = "raise"]
            ELSE [q EXCEPT !.is_onus = parse_ach_detail_record(line).sequence_nbr,
                           !.onus_data = <<Candidate(line)>>]
        ELSE [q EXCEPT !.current_batch = Append(@, line)]

\* The if/elif chain of the loop body, in its order.
ParseLine(p, line) ==
    CASE line.typ = "101" -> OnFileHeader(p, line)
      [] line.typ = "9"   -> OnFileControl(p, line)
      [] line.typ = "8"   -> OnBatchControl(p, line)
      [] line.typ = "5"   -> OnBatchHeader(p, line)
      [] line.typ = "7"   -> OnAddenda(p, line)
      [] line.typ = "6"   -> OnDetail(p, line)
      [] OTHER            -> p

----------------------------------------------------------------------------
(* exit_early and disconnect_db *)

\* One call on the database connection: what was called, for which on-us
\* record (0: none), and whether it succeeded.
DbCall(op, rec, ok) == [op |-> op, rec |-> rec, ok |-> ok]

\* A slip: exit_early called without db_disconnect, so nothing is rolled back.
exit_early_no_rollback(sub) ==
    /\ dbh' = dbh
    /\ pc' = "failed"

\* script_data.dbh.rollback(); disconnect_db(script_data); return False
exit_early(sub) ==
    /\ dbh' = dbh \o <<DbCall("rollback", 0, TRUE), DbCall("close", 0, TRUE)>>
    /\ pc' = "failed"

----------------------------------------------------------------------------
(* Stage 1: parse_ach_file *)

\* open(INPUT_ACH_FILE_FULLPATH) raises.
ParseOpenFails ==
    /\ pc = "parse"
    /\ infile = <<>>
    /\ stages' = Append(stages, "parseACHFile")
    /\ exit_early("parseACHFile")
    /\ UNCHANGED <<rptonly, routeVars, parseVars, totalVars, achVars, swimVars>>

\* The loop reads `text`, the next line of the file.
ReadLine(text) ==
    /\ pc = "parse"
    /\ LET line == [text EXCEPT !.pos = Len(infile) + 1]
           q == ParseLine(ParseState, line)
       IN  /\ infile' = Append(infile, line)
           /\ current_batch' = q.current_batch
           /\ onus_data' = q.onus_data
           /\ is_onus' = q.is_onus
           /\ newach_data' = q.newach_data
           /\ all_onus_data' = q.all_onus_data
           /\ file_header' = q.file_header
           /\ CASE q.result = "continue" ->
                     /\ pc' = "parse"
                     /\ UNCHANGED <<dbh, stages>>
                [] q.result = "break" ->
                     /\ pc' = "write"
                     /\ stages' = Append(stages, "parseACHFile")
                     /\ UNCHANGED dbh
                [] OTHER ->
                     /\ stages' = Append(stages, "parseACHFile")
                     /\ exit_early("parseACHFile")
    /\ UNCHANGED <<rptonly, routeVars, totalVars, achVars, swimVars>>

\* The file ends without a '9' line: the loop ends, return True.
ParseEndOfFile ==
    /\ pc = "parse"
    /\ pc' = "write"
    /\ stages' = Append(stages, "parseACHFile")
    /\ UNCHANGED <<rptonly, routeVars, parseVars, totalVars, achVars, swimVars, dbh>>

----------------------------------------------------------------------------
(* rebuild_batch *)

RunTotals ==
    [entry_hash_cnt |-> entry_hash_cnt, total_credit |-> total_credit,
     total_debit |-> total_debit, total_record_cnt |-> total_record_cnt]

\* A slip: all nine digits of the routing number.
RtnbrWithChecksum(line) == Wide(parse_ach_detail_record(line).rtnbr)

\* int(rtnbr[:8]): the routing number without its check digit
RtnbrNoChecksum(line) == Wide(parse_ach_detail_record(line).rtnbr \div 10)

\* A slip: the first digit of the code is tested, not the last.
IsCreditCodeFirstDigit(ach_tc) == ach_tc \div 10 = 2

\* ach_tc.endswith('2') / ach_tc.endswith('7')
IsCreditCode(ach_tc) == ach_tc % 10 = 2
IsDebitCode(ach_tc) == ach_tc % 10 = 7

\* What one kept line adds to the batch's running values.
HashOfLine(line) == IF line.typ = "6" THEN RtnbrNoChecksum(line) ELSE Wide(0)
CreditOfLine(line) ==
    IF line.typ = "6" /\ IsCreditCode(line.tc) THEN line.amt ELSE 0
DebitOfLine(line) ==
    IF line.typ = "6" /\ ~IsCreditCode(line.tc) /\ IsDebitCode(line.tc)
    THEN line.amt ELSE 0

\* A slip: only the entry lines are counted, not the addenda lines.
CountOfLineEntriesOnly(line) == IF line.typ = "6" THEN 1 ELSE 0

\* total_record_cnt += 1
CountOfLine(line) == 1

\* The loop `for line in batch_data[1:]`: the values it leaves in
\* entry_hash_total, credit_total, debit_total and total_record_cnt, and
\* whether parse_ach_detail_record raised on a line.
BatchLoop(batch_data) ==
    LET lines == Tail(batch_data)
    IN  [entry_hash_total |->
             WideSumSeq([i \in 1..Len(lines) |-> HashOfLine(lines[i])]),
         credit_total |->
             SumSeq([i \in 1..Len(lines) |-> CreditOfLine(lines[i])]),
         debit_total |->
             SumSeq([i \in 1..Len(lines) |-> DebitOfLine(lines[i])]),
         total_record_cnt |->
             SumSeq([i \in 1..Len(lines) |-> CountOfLine(lines[i])]),
         raised |->
             \E i \in 1..Len(lines) : lines[i].typ = "6" /\ lines[i].bad]

\* batch_header[:-7] + new_number
RenumberHeader(batch_header, control_nbr) ==
    [batch_header EXCEPT !.last7 = control_nbr]

\* company_id = batch_header[40:49]
CompanyIdOf(batch_header) ==
    SubSeq(batch_header.cid, 1, IF Len(batch_header.cid) < 9
                                THEN Len(batch_header.cid) ELSE 9)

\* The batch is left out when this holds: `if not total_record_cnt`
BatchIsEmpty(acc) == acc.total_record_cnt = 0

\* A slip: the run totals are assigned, not added to.
AddToRunTotalsAssigned(tot, acc) ==
    [entry_hash_cnt |-> Rightmost10(acc.entry_hash_total),
     total_credit |-> acc.credit_total,
     total_debit |-> acc.debit_total,
     total_record_cnt |-> acc.total_record_cnt]

\* script_data.entry_hash_cnt += int(entry_hash), and the other three
AddToRunTotals(tot, acc) ==
    [entry_hash_cnt |-> WideAdd(tot.entry_hash_cnt,
                                Rightmost10(acc.entry_hash_total)),
     total_credit |-> tot.total_credit + acc.credit_total,
     total_debit |-> tot.total_debit + acc.debit_total,
     total_record_cnt |-> tot.total_record_cnt + acc.total_record_cnt]

\* batch_control_footer, from the header and the values acc of the loop
BatchControlFooter(batch_header, acc, control_nbr) ==
    BatchControlLine(batch_header.scc, acc.total_record_cnt,
                     Rightmost10(acc.entry_hash_total),
                     acc.debit_total, acc.credit_total,
                     CompanyIdOf(batch_header), batch_header.odfi,
                     control_nbr)

\* rebuild_batch after its loop left the values acc
AfterBatchLoop(tot, batch_data, control_nbr, acc) ==
    IF acc.raised THEN [lines |-> <<>>, tot |-> tot, raised |-> TRUE]
    ELSE IF BatchIsEmpty(acc)
    THEN [lines |-> <<>>, tot |-> tot, raised |-> FALSE]
    ELSE [lines |-> <<RenumberHeader(batch_data[1], control_nbr)>>
                       \o Tail(batch_data)
                       \o <<BatchControlFooter(batch_data[1], acc, control_nbr)>>,
          tot |-> AddToRunTotals(tot, acc),
          raised |-> FALSE]

\* Returns the rebuilt batch (<<>> when it is left out), the run totals after
\* the call, and whether the call raised.
rebuild_batch(tot, batch_data, control_nbr) ==
    IF batch_data = <<>> THEN [lines |-> <<>>, tot |-> tot, raised |-> FALSE]
    ELSE AfterBatchLoop(tot, batch_data, control_nbr, BatchLoop(batch_data))

----------------------------------------------------------------------------
(* rebuild_file *)

\* A slip: the number of a batch left out is not given back.
BatchCntAfterNoDecrement(batch_cnt, batch_file) == batch_cnt

\* batch_cnt after `if not batch_file: batch_cnt -= 1`
BatchCntAfter(batch_cnt, batch_file) ==
    IF batch_file = <<>> THEN batch_cnt - 1 ELSE batch_cnt

\* One pass of the loop `for batch_data in ach_data`: st after rebuild_batch
\* returned b for the batch numbered st.batch_cnt + 1.
FileLoopStep(st, b) ==
    IF b.raised THEN [st EXCEPT !.raised = TRUE]
    ELSE [st EXCEPT !.batch_cnt = BatchCntAfter(st.batch_cnt + 1, b.lines),
                    !.batches = IF b.lines = <<>> THEN @ ELSE Append(@, b.lines),
                    !.tot = b.tot]

\* The loop `for batch_data in ach_data`, from batch i on; st holds
\* batch_cnt, the batches emitted so far, the run totals and `raised`.
RECURSIVE FileLoop(_, _, _)
FileLoop(ach_data, i, st) ==
    IF i > Len(ach_data) \/ st.raised THEN st
    ELSE FileLoop(ach_data, i + 1,
             FileLoopStep(st, rebuild_batch(st.tot, ach_data[i],
                                            st.batch_cnt + 1)))

\* A slip: mod lines are added, not 10 - mod.
ExtraLinesMod(line_cnt) == line_cnt % BlockingFactor

\* extra_lines = (10 - mod) if mod else 0
ExtraLines(line_cnt) ==
    LET mod == line_cnt % BlockingFactor
    IN  IF mod # 0 THEN BlockingFactor - mod ELSE 0

\* block_cnt = new_count // 10
BlockCount(line_cnt) == (line_cnt + ExtraLines(line_cnt)) \div BlockingFactor

Padding(n) == [i \in 1..n |-> PaddingLine]

\* file_control_footer, for the header and batches in new_ach_file
FileControlFooter(st, line_cnt) ==
    FileControlLine(st.batch_cnt, BlockCount(line_cnt),
                    st.tot.total_record_cnt,
                    Rightmost10(st.tot.entry_hash_cnt),
                    st.tot.total_debit, st.tot.total_credit)

\* new_ach_file with the file control record and the padding lines
WithFooter(st, new_ach_file) ==
    new_ach_file \o <<FileControlFooter(st, 1 + Len(new_ach_file))>>
                 \o Padding(ExtraLines(1 + Len(new_ach_file)))

\* rebuild_file after its loop left st
AfterFileLoop(header, st) ==
    [file |-> IF st.raised THEN <<>>
              ELSE WithFooter(st, <<header>> \o Flatten(st.batches)),
     tot |-> st.tot,
     raised |-> st.raised]

\* Returns the lines of the new file, the run totals after the call, and
\* whether the call raised.
rebuild_file(tot, header, ach_data) ==
    AfterFileLoop(header,
                  FileLoop(ach_data, 1,
                           [batch_cnt |-> 0, batches |-> <<>>, tot |-> tot,
                            raised |-> FALSE]))

\* The batches of a list rebuild_file returned: after the file header, each
\* batch ends with the batch control record built for it.
RECURSIVE SplitBatches(_, _)
SplitBatches(file, from) ==
    LET ends == {i \in from..Len(file) : file[i].typ = "8"}
    IN  IF ends = {} THEN <<>>
        ELSE <<SubSeq(file, from, MinOf(ends))>>
                 \o SplitBatches(file, MinOf(ends) + 1)

BatchesOf(file) == SplitBatches(file, 2)

----------------------------------------------------------------------------
(* Stage 2: write_new_ach_file *)

SetRunTotals(tot) ==
    /\ entry_hash_cnt' = tot.entry_hash_cnt
    /\ total_credit' = tot.total_credit
    /\ total_debit' = tot.total_debit
    /\ total_record_cnt' = tot.total_record_cnt

\* write_new_ach_file once rebuild_file returned r: the file is written,
\* or rebuild_file raised and the stage ends.
WriteRebuilt(r) ==
    /\ SetRunTotals(r.tot)
    /\ stages' = Append(stages, "writeNewACHFile")
    /\ IF r.raised
       THEN /\ exit_early("writeNewACHFile")
            /\ UNCHANGED achVars
       ELSE /\ newfile' = r.file
            /\ UNCHANGED refile
            /\ pc' = "swiminfo"
            /\ UNCHANGED dbh

WriteNewAchFile ==
    /\ pc = "write"
    /\ WriteRebuilt(rebuild_file(RunTotals, file_header, newach_data))
    /\ UNCHANGED <<rptonly, routeVars, parseVars, swimVars>>

\* rebuild_file returns, then open(OUTPUT_ACH_FILE_FULLPATH, 'w') raises.
WriteNewAchFileFails ==
    /\ pc = "write"
    /\ LET r == rebuild_file(RunTotals, file_header, newach_data)
       IN  /\ ~r.raised
           /\ SetRunTotals(r.tot)
    /\ stages' = Append(stages, "writeNewACHFile")
    /\ exit_early("writeNewACHFile")
    /\ UNCHANGED <<rptonly, routeVars, parseVars, achVars, swimVars>>

----------------------------------------------------------------------------
(* Stage 3: get_swim_file_info *)

EFFDATE == 20250811       \* the EFFDATE argument
GL_ACCTNBR == 10200       \* the GL_ACCTNBR argument
CASH_BOX_NUMBER == 77     \* the CASH_BOX_NUMBER argument

\* swim_file_info['achToDnaTc']
achToDnaTc ==
    [tc \in {22, 32} |-> [desc |-> "OAO External Transfer", osiTC |-> "DEPD"]]

GetSwimFileInfo ==
    /\ pc = "swiminfo"
    /\ swim_file_info' = [effDate |-> EFFDATE, swimCt |-> 0, glDrAmt |-> 0]
    /\ stages' = Append(stages, "getSwimFileInfo")
    /\ pc' = "holddate"
    /\ UNCHANGED <<rptonly, routeVars, parseVars, totalVars, achVars, holddate, swm_lines,
                   swimfile, dbh>>

----------------------------------------------------------------------------
(* Stage 4: get_hold_biz_date *)

\* cursor.execute / fetchone succeed; holddate = result[0] + ' 16:00'
GetHoldBizDate ==
    /\ pc = "holddate"
    /\ holddate' = "bizdate 16:00"
    /\ dbh' = Append(dbh, DbCall("get_hold_biz_date", 0, TRUE))
    /\ stages' = Append(stages, "getholdbizdate")
    /\ pc' = "loop"
    /\ UNCHANGED <<rptonly, routeVars, parseVars, totalVars, achVars, swim_file_info,
                   swm_lines, swimfile>>

\* The query raises.
GetHoldBizDateFails ==
    /\ pc = "holddate"
    /\ stages' = Append(stages, "getholdbizdate")
    /\ dbh' = dbh \o <<DbCall("get_hold_biz_date", 0, FALSE),
                       DbCall("rollback", 0, TRUE), DbCall("close", 0, TRUE)>>
    /\ pc' = "failed"
    /\ UNCHANGED <<rptonly, routeVars, parseVars, totalVars, achVars, swimVars>>

----------------------------------------------------------------------------
(* Stage 5: loop_through_onus_data_create_swim_file_and_stage_holds *)

\* swimFmt.format(...): the fields of a SWIM line that vary.
SwimLine(acct, tc, amt, desc, trace) ==
    [acct |-> acct, tc |-> tc, amt |-> amt, effDate |-> EFFDATE, desc |-> desc,
     trace |-> trace, cashbox |-> CASH_BOX_NUMBER]

\* A KeyError when the transaction code is not in achToDnaTc.
create_swim_line_raises(data) == data.ach_tc \notin DOMAIN achToDnaTc

create_swim_line(data) ==
    SwimLine(data.acctnbr, achToDnaTc[data.ach_tc].osiTC, data.amt,
             achToDnaTc[data.ach_tc].desc, data.trace_nbr)

\* script_data.gl_cr_line
offset_gl(info) ==
    SwimLine(GL_ACCTNBR, "GLD", info.glDrAmt, "DNA ACH GL debit offset",
             EmptyStr)

is_report_only == rptonly = "Y"

\* A slip: the report-only flag is not looked at before the insert.
HoldCallsAnyMode(i, failing) ==
    <<DbCall("insert_ach_hold", i, i \notin failing)>>

\* The calls the loop body makes on the database for record i:
\* insert_ach_hold, unless in report-only mode.
HoldCalls(i, failing) ==
    IF is_report_only THEN <<>>
    ELSE <<DbCall("insert_ach_hold", i, i \notin failing)>>

\* A slip: the amount in dollars is added, not the amount in cents.
GlDebitOfDollars(data) == data.amt \div 100

\* What record `data` adds to swim_file_info['glDrAmt']
GlDebitOf(data) == data.amt

\* A slip: the loop is left at the first insert that fails.
RECURSIVE OnUsLoopLeftAtFailure(_, _, _, _)
OnUsLoopLeftAtFailure(recs, i, failing, st) ==
    IF i > Len(recs) THEN st
    ELSE IF create_swim_line_raises(recs[i])
    THEN [st EXCEPT !.info.glDrAmt = @ + GlDebitOf(recs[i]), !.raised = TRUE]
    ELSE LET next == [st EXCEPT !.info.glDrAmt = @ + GlDebitOf(recs[i]),
                                !.info.swimCt = @ + 1,
                                !.swm_lines = Append(@, create_swim_line(recs[i])),
                                !.calls = @ \o HoldCalls(i, failing)]
         IN  IF ~is_report_only /\ i \in failing THEN next
             ELSE OnUsLoopLeftAtFailure(recs, i + 1, failing, next)

\* The loop `for data in script_data.all_onus_data`, from record i on;
\* `failing` are the records whose insert fails.
RECURSIVE OnUsLoop(_, _, _, _)
OnUsLoop(recs, i, failing, st) ==
    IF i > Len(recs) THEN st
    ELSE IF create_swim_line_raises(recs[i])
    THEN [st EXCEPT !.info.glDrAmt = @ + GlDebitOf(recs[i]), !.raised = TRUE]
    ELSE OnUsLoop(recs, i + 1, failing,
             [st EXCEPT !.info.glDrAmt = @ + GlDebitOf(recs[i]),
                        !.info.swimCt = @ + 1,
                        !.swm_lines = Append(@, create_swim_line(recs[i])),
                        !.calls = @ \o HoldCalls(i, failing)])

\* A slip: gl_cr_line is put in front of the lines of the records.
BuildSwimLinesOffsetFirst(recs, failing) ==
    LET st == OnUsLoop(recs, 1, failing,
                       [info |-> swim_file_info, swm_lines |-> swm_lines,
                        calls |-> <<>>, raised |-> FALSE])
    IN  IF st.raised THEN st
        ELSE [st EXCEPT !.swm_lines = <<offset_gl(st.info)>> \o @]

\* The loop, then offset_gl and the append of gl_cr_line.
BuildSwimLines(recs, failing) ==
    LET st == OnUsLoop(recs, 1, failing,
                       [info |-> swim_file_info, swm_lines |-> swm_lines,
                        calls |-> <<>>, raised |-> FALSE])
    IN  IF st.raised THEN st
        ELSE [st EXCEPT !.swm_lines = Append(@, offset_gl(st.info))]

\* The output file after the stage: `with open(...)` is reached, and the
\* lines written, only when no statement of the try block raised.
SwimFileAfter(st) == IF st.raised THEN swimfile ELSE st.swm_lines

LoopThroughOnUsData(failing) ==
    /\ pc = "loop"
    /\ LET st == BuildSwimLines(all_onus_data, failing)
       IN  /\ swim_file_info' = st.info
           /\ swm_lines' = st.swm_lines
           /\ stages' = Append(stages,
                               "loopThroughOnUsDataCreateSWIMFileAndStageHolds")
           /\ swimfile' = SwimFileAfter(st)
           /\ IF st.raised
              THEN /\ dbh' = dbh \o st.calls \o <<DbCall("rollback", 0, TRUE),
                                                  DbCall("close", 0, TRUE)>>
                   /\ pc' = "failed"
              ELSE /\ dbh' = dbh \o st.calls
                   /\ pc' = "finish"
    /\ UNCHANGED <<rptonly, routeVars, parseVars, totalVars, achVars, holddate>>

\* The lines are built, then open(OUTPUT_SWIM_FILE_FULLPATH, 'w') raises.
LoopThroughOnUsDataFails(failing) ==
    /\ pc = "loop"
    /\ LET st == BuildSwimLines(all_onus_data, failing)
       IN  /\ ~st.raised
           /\ swim_file_info' = st.info
           /\ swm_lines' = st.swm_lines
           /\ dbh' = dbh \o st.calls \o <<DbCall("rollback", 0, TRUE),
                                          DbCall("close", 0, TRUE)>>
    /\ stages' = Append(stages, "loopThroughOnUsDataCreateSWIMFileAndStageHolds")
    /\ pc' = "failed"
    /\ UNCHANGED <<rptonly, routeVars, parseVars, totalVars, achVars, holddate, swimfile>>

\* The sets of records whose insert may fail.
FailingSets ==
    IF is_report_only THEN {{}} ELSE SUBSET (1..Len(all_onus_data))

----------------------------------------------------------------------------
(* The end of run(): commit unless report-only, then disconnect_db. *)

\* A slip: the commit is made in report-only mode too.
FinishCommitsAnyMode ==
    /\ pc = "finish"
    /\ dbh' = dbh \o <<DbCall("commit", 0, TRUE), DbCall("close", 0, TRUE)>>
    /\ pc' = "done"
    /\ UNCHANGED <<rptonly, routeVars, parseVars, totalVars, achVars, swimVars,
                   stages>>

Finish ==
    /\ pc = "finish"
    /\ dbh' = dbh \o (IF is_report_only THEN <<>>
                      ELSE <<DbCall("commit", 0, TRUE)>>)
                  \o <<DbCall("close", 0, TRUE)>>
    /\ pc' = "done"
    /\ UNCHANGED <<rptonly, routeVars, parseVars, totalVars, achVars, swimVars, stages>>

----------------------------------------------------------------------------
(* The state after initialize(). *)

Init ==
    /\ pc = "parse"
    /\ rptonly \in {"Y", "N"}
    /\ infile = <<>>
    /\ current_batch = <<>>
    /\ onus_data = <<>>
    /\ is_onus = IntZero
    /\ newach_data = <<>>
    /\ all_onus_data = <<>>
    /\ file_header = NoHeader
    /\ entry_hash_cnt = Wide(0)
    /\ total_credit = 0
    /\ total_debit = 0
    /\ total_record_cnt = 0
    /\ newfile = <<>>
    /\ refile = <<>>
    /\ swim_file_info = [effDate |-> 0, swimCt |-> 0, glDrAmt |-> 0]
    /\ holddate = ""
    /\ swm_lines = <<>>
    /\ swimfile = <<>>
    /\ dbh = <<>>
    /\ stages = <<>>
    /\ rtnbr_in = <<>>
    /\ route_valid = "not called"

\* The stages of run() after the input is read.
Pipeline ==
    \/ ParseOpenFails
    \/ ParseEndOfFile
    \/ WriteNewAchFile
    \/ WriteNewAchFileFails
    \/ GetSwimFileInfo
    \/ GetHoldBizDate
    \/ GetHoldBizDateFails
    \/ \E failing \in FailingSets : LoopThroughOnUsData(failing)
    \/ \E failing \in FailingSets : LoopThroughOnUsDataFails(failing)
    \/ Finish

----------------------------------------------------------------------------
(* Input files.  The lines the environment may put at position n. *)

OtherRoute == 61000146            \* a routing number of another institution
BigRoute == 999999999             \* the routing number with the largest prefix
CompanyId == <<3, 2, 1, 1, 8, 0, 3, 7, 9, 2>>   \* positions 41-50 of a '5' line
Odfi == 6100014                   \* positions 80-87 of a '5' line

\* An on-us credit (own routing number, code 22 or 32 by position).
OnUsDetail(n) ==
    DetailLine(IF n % 2 = 0 THEN 22 ELSE 32, FTFCU_ROUTENBR, 1000 + n, 100 + n, n)

\* The same with positions 80-94 blank: strip() leaves 79 characters.
OnUsDetailNoTrace(n) ==
    DetailLine(22, FTFCU_ROUTENBR, 1000 + n, 100 + n, EmptyStr)

\* An entry for another institution: a debit or a credit by position.
ForeignDetail(n) ==
    DetailLine(IF n % 2 = 0 THEN 27 ELSE 22, OtherRoute, 2000 + n, 10 + n, n)

\* A returned credit entry for another institution (transaction code 21),
\* met as the first entry of a batch.
ReturnDetail(n) == DetailLine(21, OtherRoute, 2000 + n, 20 + n, n)

\* A detail line too short to slice: parse_ach_detail_record raises.
ShortDetail(n) == [ForeignDetail(n) EXCEPT !.bad = TRUE]

MarkerAddenda(n) == AddendaLine(5, TRUE, TRUE, n)       \* "705 ... EXT OAO ... ddd"
OddMarkerAddenda(n) == AddendaLine(2, TRUE, TRUE, n)    \* "702 ... EXT OAO ..."
PlainAddenda(n) == AddendaLine(5, FALSE, TRUE, n)       \* no 'EXT OAO'

Header(nbr) == BatchHeaderLine(200, CompanyId, Odfi, nbr)

\* Lines of any kind in any order.
AnyLines(n) ==
    { Header(1), OnUsDetail(n), OnUsDetailNoTrace(n), ForeignDetail(n),
      MarkerAddenda(n), OddMarkerAddenda(n), PlainAddenda(n),
      BatchControlLine(200, 0, Wide(0), 0, 0, CompanyId, Odfi, 1) }

(* Well-formed files: [101] (5 entries 8)* 9, with control records that *)
(* state the counts, hash and totals of the lines they close.           *)

LastIndexOf(f, typ, i) == MaxOf({j \in 1..i : f[j].typ = typ})

EntryLines(f, from, to) ==
    SelectSeq(SubSeq(f, from, to), LAMBDA l : l.typ \in {"6", "7"})

\* The control totals the record layouts define for a list of entry lines:
\* credits are the transaction codes ending in 1..4, debits those in 5..9.
InputCount(ls) == Len(ls)

InputHashSum(ls) ==
    WideSumSeq([i \in 1..Len(ls) |->
                   IF ls[i].typ = "6" THEN Wide(ls[i].rtnbr \div 10) ELSE Wide(0)])

InputHash(ls) == WideMod(InputHashSum(ls))

InputDebit(ls) ==
    SumSeq([i \in 1..Len(ls) |->
               IF ls[i].typ = "6" /\ ls[i].tc % 10 \in 5..9 THEN ls[i].amt ELSE 0])

InputCredit(ls) ==
    SumSeq([i \in 1..Len(ls) |->
               IF ls[i].typ = "6" /\ ls[i].tc % 10 \in 1..4 THEN ls[i].amt ELSE 0])

NumberOf(f, typ) == Len(SelectSeq(f, LAMBDA l : l.typ = typ))

\* The '8' line that closes the batch open at the end of f.
ClosingBatchControl(f) ==
    LET h == LastIndexOf(f, "5", Len(f))
        ls == EntryLines(f, h + 1, Len(f))
    IN  BatchControlLine(f[h].scc, InputCount(ls), InputHash(ls),
                         InputDebit(ls), InputCredit(ls), f[h].cid, f[h].odfi,
                         f[h].last7)

\* The '9' line that closes f.
ClosingFileControl(f) ==
    LET ls == EntryLines(f, 1, Len(f))
    IN  FileControlLine(NumberOf(f, "5"),
                        (Len(f) + 1 + BlockingFactor - 1) \div BlockingFactor,
                        InputCount(ls), InputHash(ls), InputDebit(ls),
                        InputCredit(ls))

\* The next batch number: 1 or 2 for the first batch, then ascending.
NextHeaders(f) ==
    LET h == LastIndexOf(f, "5", Len(f))
    IN  IF h = 0 THEN {Header(1), Header(2)} ELSE {Header(f[h].last7 + 1)}

WellFormedLines(f) ==
    LET n == Len(f) + 1
        last == IF f = <<>> THEN "" ELSE f[Len(f)].typ
        details == {OnUsDetail(n), ForeignDetail(n)}
    IN  IF n > MaxWFLines THEN {}
        ELSE CASE last = ""    -> {FileHeaderLine} \cup NextHeaders(f)
               [] last = "101" -> NextHeaders(f)
               [] last = "5"   -> details \cup {ReturnDetail(n), ClosingBatchControl(f)}
               [] last = "6"   -> details \cup {MarkerAddenda(n), PlainAddenda(n),
                                                OddMarkerAddenda(n),
                                                ClosingBatchControl(f)}
               [] last = "7"   -> details \cup {ClosingBatchControl(f)}
                                    \cup (IF f[Len(f)].marker
                                          THEN {PlainAddenda(n)} ELSE {})
               [] last = "8"   -> NextHeaders(f) \cup {ClosingFileControl(f)}
               [] OTHER        -> {}

(* Bulk files: one batch of MaxBulk - BulkSpread to MaxBulk entries for    *)
(* the routing number with the largest prefix, the last ones with or      *)
(* without an addenda, then one batch of up to MaxTail entries.           *)

BulkDetail(n) == DetailLine(27, BigRoute, 3000, 1, n)

BulkLines(f) ==
    LET n == Len(f) + 1
        last == IF f = <<>> THEN "" ELSE f[Len(f)].typ
        h == LastIndexOf(f, "5", Len(f))
        inBatch == NumberOf(SubSeq(f, h + 1, Len(f)), "6")
        first == NumberOf(f, "5") = 1
        more == IF inBatch < (IF first THEN MaxBulk ELSE MaxTail)
                THEN {BulkDetail(n)} ELSE {}
        close == IF first /\ inBatch < MaxBulk - BulkSpread THEN {}
                 ELSE {ClosingBatchControl(f)}
        addenda == IF first /\ inBatch < MaxBulk - BulkSpread THEN {}
                   ELSE {PlainAddenda(n)}
    IN  CASE last = ""      -> {BlankLine, Header(1)}
          [] last = "other" -> {Header(1)}
          [] last = "5"     -> more \cup close
          [] last = "6"     -> more \cup close \cup addenda
          [] last = "7"     -> more \cup close
          [] last = "8"     -> IF first
                               THEN {Header(2), ClosingFileControl(f)}
                               ELSE {ClosingFileControl(f)}
          [] OTHER          -> {}

----------------------------------------------------------------------------
(* Specifications: run() on each family of input files. *)

Next ==
    \/ \E text \in AnyLines(Len(infile) + 1) :
           Len(infile) < MaxLines /\ ReadLine(text)
    \/ Pipeline

Spec == Init /\ [][Next]_vars

NextWF ==
    \/ \E text \in WellFormedLines(infile) : ReadLine(text)
    \/ Pipeline

SpecWF == Init /\ [][NextWF]_vars

\* rebuild_file called a second time on the same script_data, the input
\* not read again.
KeepRebuilt(r) ==
    /\ ~r.raised
    /\ SetRunTotals(r.tot)
    /\ refile' = r.file

RebuildAgain ==
    /\ newfile # <<>>
    /\ refile = <<>>
    /\ KeepRebuilt(rebuild_file(RunTotals, file_header, newach_data))
    /\ UNCHANGED <<pc, rptonly, routeVars, parseVars, newfile, swimVars, dbh, stages>>

NextRerun ==
    \/ \E text \in WellFormedLines(infile) :
           Len(infile) < MaxRerunLines /\ ReadLine(text)
    \/ Pipeline
    \/ RebuildAgain

SpecRerun == Init /\ [][NextRerun]_vars

NextBulk ==
    \/ \E text \in BulkLines(infile) : ReadLine(text)
    \/ Pipeline

SpecBulk == Init /\ [][NextBulk]_vars

----------------------------------------------------------------------------
(* The routing number validator, and the strings it is called with. *)

MaxRouteLen == 10     \* characters of the longest string validated
MaxLeadDigit == 3     \* largest value of the first two digits of a string

RouteLen == 9         \* len(rtnbr) != 9

\* A character is what str.isdigit, int and string comparison see of it:
\*   "ascii"    '0'..'9'
\*   "decimal"  a decimal digit outside ASCII, such as a fullwidth digit:
\*              isdigit is True and int gives its value
\*   "super"    a superscript digit: isdigit is True and int raises ValueError
\*   "other"    a letter, a space, a sign: isdigit is False
Ascii(v) == [cls |-> "ascii", val |-> v]
Decimal(v) == [cls |-> "decimal", val |-> v]
Super(v) == [cls |-> "super", val |-> v]
Letter == [cls |-> "other", val |-> 0]

\* str.isdigit(): a non-empty string of digit characters.
isdigit(s) == s # <<>> /\ \A i \in 1..Len(s) : s[i].cls # "other"

\* s[lo:hi] of Python, in 0-based bounds.
Slice(s, lo, hi) ==
    SubSeq(s, lo + 1, IF hi < Len(s) THEN hi ELSE Len(s))

\* The two-character strings of the list fed_districts, in its order of
\* writing: '01'..'12', '21'..'29', '20'..'22', '31'..'39', '30'..'32'.
fed_districts ==
    {<<Ascii(n \div 10), Ascii(n % 10)>> :
        n \in (1..12) \cup (21..29) \cup (20..22) \cup (31..39) \cup (30..32)}

is_valid_fed_symbol(s) == Slice(s, 2, 4) \in fed_districts

ChecksumWeights == <<3, 7, 1, 3, 7, 1, 3, 7, 1>>

RECURSIVE WeightedSum(_, _)
WeightedSum(s, n) ==
    IF n = 0 THEN 0
    ELSE WeightedSum(s, n - 1) + s[n].val * ChecksumWeights[n]

\* int(d) for each character, then the weighted sum of the first nine.
validate_routing_number_checksum(s) ==
    IF \E i \in 1..Len(s) : s[i].cls = "super" THEN "ValueError"
    ELSE IF WeightedSum(s, RouteLen) % 10 = 0 THEN "True"
    ELSE "False"

validate_route_number(s) ==
    IF ~isdigit(s) THEN "False"
    ELSE IF Len(s) # RouteLen THEN "False"
    ELSE IF ~is_valid_fed_symbol(s) THEN "False"
    ELSE validate_routing_number_checksum(s)

\* One call of validate_route_number.
ValidateRouteNumber ==
    /\ route_valid = "not called"
    /\ route_valid' = validate_route_number(rtnbr_in)
    /\ UNCHANGED <<pc, rptonly, rtnbr_in, parseVars, totalVars, achVars, swimVars,
                   dbh, stages>>

\* The strings the validator is called with: up to MaxRouteLen characters,
\* one short of nine included, digits of every kind in the places the
\* checks read.
LeadChars ==
    {Ascii(v) : v \in 0..MaxLeadDigit} \cup {Decimal(0), Super(2), Letter}
DistrictChars == {Ascii(v) : v \in 0..9} \cup {Decimal(1)}
MiddleDigits == {<<0, 0, 0>>, <<1, 8, 0>>}
LateChars == {Ascii(0), Ascii(7), Super(2)}
RouteTail == [i \in 1..(MaxRouteLen - RouteLen) |-> Ascii(0)]

RouteInputs ==
    {SubSeq(<<c1, Ascii(d2), c3, c4, Ascii(m[1]), Ascii(m[2]), Ascii(m[3]),
              c8, Ascii(d9)>> \o RouteTail, 1, n) :
        c1 \in LeadChars, d2 \in 0..MaxLeadDigit,
        c3 \in {Ascii(v) : v \in 0..4} \cup {Decimal(1)}, c4 \in DistrictChars,
        m \in MiddleDigits, c8 \in LateChars, d9 \in 0..9,
        n \in (RouteLen - 1)..MaxRouteLen}

InitRoute ==
    /\ pc = "parse"
    /\ rptonly = "N"
    /\ infile = <<>>
    /\ current_batch = <<>>
    /\ onus_data = <<>>
    /\ is_onus = IntZero
    /\ newach_data = <<>>
    /\ all_onus_data = <<>>
    /\ file_header = NoHeader
    /\ entry_hash_cnt = Wide(0)
    /\ total_credit = 0
    /\ total_debit = 0
    /\ total_record_cnt = 0
    /\ newfile = <<>>
    /\ refile = <<>>
    /\ swim_file_info = [effDate |-> 0, swimCt |-> 0, glDrAmt |-> 0]
    /\ holddate = ""
    /\ swm_lines = <<>>
    /\ swimfile = <<>>
    /\ dbh = <<>>
    /\ stages = <<>>
    /\ rtnbr_in \in RouteInputs
    /\ route_valid = "not called"

NextRoute == ValidateRouteNumber

SpecRoute == InitRoute /\ [][NextRoute]_vars

----------------------------------------------------------------------------
(* What the properties below speak of. *)

\* The input lines h..e are a batch: a '5', entry and addenda lines, an '8'.
ClosedBatch(h, e) ==
    /\ h < e
    /\ infile[h].typ = "5"
    /\ infile[e].typ = "8"
    /\ \A k \in (h + 1)..(e - 1) : infile[k].typ \in {"6", "7"}

\* The addenda lines that follow line i directly, up to line e.
AddendaAfter(i, e) ==
    {j \in (i + 1)..(e - 1) : \A k \in (i + 1)..j : infile[k].typ = "7"}

\* The input positions of the lines of a list of lines, and of the stored
\* batches.
PositionsOf(lines) == {lines[k].pos : k \in 1..Len(lines)}
StoredPositions ==
    UNION {PositionsOf(newach_data[b]) : b \in 1..Len(newach_data)}

\* The input positions of the detail lines of the on-us list.
ExtractedPositions ==
    {all_onus_data[r].line.pos : r \in 1..Len(all_onus_data)}

\* Every stored line is the input line of its position, unchanged.
StoredUnchanged ==
    \A b \in 1..Len(newach_data) : \A k \in 1..Len(newach_data[b]) :
        newach_data[b][k] = infile[newach_data[b][k].pos]

----------------------------------------------------------------------------
(* C1.  All-or-nothing removal: in a batch opened by '5' and closed by   *)
(* '8', every detail line that passes the on-us test is either absent    *)
(* from the stored batches together with every addenda line that        *)
(* followed it, and in the on-us list, or present unchanged together     *)
(* with its addenda lines, and not in the on-us list.  Stated for the    *)
(* detail lines that carry a trace number.                               *)
C1_AllOrNothing ==
    \A h \in 1..Len(infile) : \A e \in 1..Len(infile) :
        ClosedBatch(h, e) =>
            \A i \in (h + 1)..(e - 1) :
                (/\ infile[i].typ = "6"
                 /\ IsOnUsDetail(infile[i])
                 /\ Truthy(infile[i].last7)) =>
                    \/ /\ i \notin StoredPositions
                       /\ AddendaAfter(i, e) \cap StoredPositions = {}
                       /\ i \in ExtractedPositions
                    \/ /\ i \in StoredPositions
                       /\ AddendaAfter(i, e) \subseteq StoredPositions
                       /\ i \notin ExtractedPositions
                       /\ StoredUnchanged

----------------------------------------------------------------------------
(* C2.  Once the settlement file is written, every record of the on-us   *)
(* list has exactly one settlement line built from it; and neither its   *)
(* detail line nor the addenda line that finalized it is a line of a     *)
(* stored batch or of the rewritten file.                                *)

\* The settlement line carries the record's account, amount and trace.
BuiltFrom(l, rec) ==
    /\ l.acct = rec.acctnbr
    /\ l.amt = rec.amt
    /\ l.trace = rec.trace_nbr
    /\ l.tc = "DEPD"

C2_OnUsOnceAndNowhereElse ==
    \A r \in 1..Len(all_onus_data) :
        LET rec == all_onus_data[r]
            own == {rec.line.pos, rec.description}
        IN  /\ swimfile # <<>> =>
                Cardinality({j \in 1..Len(swimfile) :
                                 BuiltFrom(swimfile[j], rec)}) = 1
            /\ own \cap StoredPositions = {}
            /\ own \cap PositionsOf(newfile) = {}

\* A run that extracted a record, kept another entry in a batch of the
\* rewritten file, and wrote both files.
C2_Witness ==
    /\ pc = "done"
    /\ Len(all_onus_data) >= 1
    /\ \E k \in 1..Len(newfile) : newfile[k].typ = "6"
    /\ Len(swimfile) = Len(all_onus_data) + 1

----------------------------------------------------------------------------
(* C3.  The amount of the ledger-offset line, the last line of the       *)
(* settlement output, is the sum of the amounts of the other lines.      *)
C3_OffsetIsSum ==
    swm_lines # <<>> /\ swm_lines[Len(swm_lines)].tc = "GLD" =>
        LET n == Len(swm_lines)
        IN  swm_lines[n].amt = SumSeq([j \in 1..(n - 1) |-> swm_lines[j].amt])

\* Two settlement lines with different amounts before the offset line.
C3_Witness ==
    /\ Len(swimfile) = 3
    /\ swimfile[1].amt # swimfile[2].amt
    /\ swimfile[3].tc = "GLD"

\* No on-us record at all: the offset line alone.
C3_WitnessZero == Len(swimfile) = 1 /\ swimfile[1].tc = "GLD"

----------------------------------------------------------------------------
(* C4.  A second call of rebuild_file on the same run context returns    *)
(* the same lines in the same order as the first.                        *)
C4_RerunIdentical == refile # <<>> => refile = newfile

----------------------------------------------------------------------------
(* The rewritten file. *)

\* The position of the file control record in a rebuilt file.
FileControlIndex(file) ==
    MinOf({k \in 1..Len(file) : file[k].typ = "9" /\ ~file[k].nines})

FileControlOf(file) == file[FileControlIndex(file)]

DetailsOf(lines) == SelectSeq(lines, LAMBDA l : l.typ = "6")

Last(seq) == seq[Len(seq)]

----------------------------------------------------------------------------
(* C5.  The rewritten file has a multiple of 10 lines; it holds one file *)
(* control record, the lines after it and no others are padding lines,   *)
(* and its block count is the number of lines divided by 10.             *)
C5_BlockPadding ==
    newfile # <<>> =>
        LET n == Len(newfile)
            controls == {k \in 1..n : newfile[k].typ = "9" /\ ~newfile[k].nines}
        IN  /\ n % 10 = 0
            /\ Cardinality(controls) = 1
            /\ \A k \in 1..n : newfile[k].nines <=> k > FileControlIndex(newfile)
            /\ FileControlOf(newfile).blocks * 10 = n

\* More than one block, and the file control is the last line: no padding.
C5_Witness ==
    /\ Len(newfile) > 10
    /\ FileControlIndex(newfile) = Len(newfile)

\* More than one block, ending with padding lines.
C5_WitnessPadded ==
    /\ Len(newfile) > 10
    /\ Last(newfile).nines

----------------------------------------------------------------------------
(* C6.  The entry hash of the control record of every batch of the       *)
(* rewritten file is the sum of the first 8 routing digits of the        *)
(* batch's type-'6' lines, modulo 10^10.                                 *)
C6_BatchEntryHash ==
    \A b \in 1..Len(BatchesOf(newfile)) :
        LET batch == BatchesOf(newfile)[b]
        IN  Last(batch).hash = WideMod(InputHashSum(DetailsOf(batch)))

\* A batch with an addenda line whose sum has more than 10 digits.
C6_Witness ==
    \E b \in 1..Len(BatchesOf(newfile)) :
        LET batch == BatchesOf(newfile)[b]
        IN  /\ InputHashSum(DetailsOf(batch))[1] >= Limb
            /\ \E k \in 1..Len(batch) : batch[k].typ = "7"

----------------------------------------------------------------------------
(* C7.  The entry hash of the file control record is the sum of the      *)
(* first 8 routing digits of all type-'6' lines of the rewritten file,   *)
(* modulo 10^10.                                                          *)
C7_FileEntryHash ==
    newfile # <<>> =>
        FileControlOf(newfile).hash = WideMod(InputHashSum(DetailsOf(newfile)))

\* Two batches, the first with a sum of more than 10 digits, cut in its
\* control record.
C7_Witness ==
    /\ Len(BatchesOf(newfile)) = 2
    /\ InputHashSum(DetailsOf(BatchesOf(newfile)[1]))[1] >= Limb
    /\ DetailsOf(BatchesOf(newfile)[2]) # <<>>

\* Two batches, neither with a sum of more than 10 digits, but the file's.
C7_WitnessFile ==
    /\ Len(BatchesOf(newfile)) = 2
    /\ InputHashSum(DetailsOf(BatchesOf(newfile)[1]))[1] < Limb
    /\ InputHashSum(DetailsOf(newfile))[1] >= Limb

----------------------------------------------------------------------------
(* C8.  Every batch of the rewritten file holds a type-'6' line between  *)
(* its header and its control record.                                    *)
C8_NoBatchWithoutDetail ==
    \A b \in 1..Len(BatchesOf(newfile)) :
        LET batch == BatchesOf(newfile)[b]
        IN  \E k \in 2..(Len(batch) - 1) : batch[k].typ = "6"

----------------------------------------------------------------------------
(* C9.  The k-th batch of the rewritten file carries the number k in its *)
(* header and in its control record, and the batch count of the file     *)
(* control record is the number of batches.                              *)
C9_DenseBatchNumbers ==
    newfile # <<>> =>
        LET batches == BatchesOf(newfile)
        IN  /\ \A k \in 1..Len(batches) :
                   /\ batches[k][1].last7 = k
                   /\ Last(batches[k]).last7 = k
            /\ FileControlOf(newfile).bcount = Len(batches)

\* The first stored batch was left out and the second is batch 1.
C9_Witness ==
    /\ Len(newach_data) = 2
    /\ Len(BatchesOf(newfile)) = 1
    /\ BatchesOf(newfile)[1][1].pos = newach_data[2][1].pos

----------------------------------------------------------------------------
(* C10.  Input without on-us entries and with correct control records.   *)

\* No line of the input passes the on-us test.
ZeroOnUs ==
    \A i \in 1..Len(infile) : ~(infile[i].typ = "6" /\ IsOnUsDetail(infile[i]))

\* The input was read up to its file control record.
InputComplete == infile # <<>> /\ Last(infile).typ = "9"

\* [file header,] batches, each a '5', entries with addenda, an '8'; then '9'.
InputWellFormed ==
    \A i \in 1..Len(infile) :
        LET prev == IF i = 1 THEN "" ELSE infile[i - 1].typ
        IN  infile[i].typ \in
                (CASE prev = ""    -> {"101", "5"}
                   [] prev = "101" -> {"5"}
                   [] prev = "5"   -> {"6", "8"}
                   [] prev = "6"   -> {"6", "7", "8"}
                   [] prev = "7"   -> {"6", "7", "8"}
                   [] prev = "8"   -> {"5", "9"}
                   [] OTHER        -> {})

\* Every control record of the input states the count, hash and totals of
\* the entry and addenda lines it closes, and the number of its batch.
InputControlsCorrect ==
    \A e \in 1..Len(infile) :
        LET h == LastIndexOf(infile, "5", e)
            scope == IF infile[e].typ = "8" THEN EntryLines(infile, h + 1, e)
                     ELSE EntryLines(infile, 1, e)
        IN  infile[e].typ \in {"8", "9"} =>
                /\ infile[e].cnt = InputCount(scope)
                /\ infile[e].hash = InputHash(scope)
                /\ infile[e].debit = InputDebit(scope)
                /\ infile[e].credit = InputCredit(scope)
                /\ infile[e].typ = "8" => infile[e].last7 = infile[h].last7

\* The batches of the input, each without its control record.
InputBatches ==
    LET all == SplitBatches(infile, IF infile[1].typ = "101" THEN 2 ELSE 1)
    IN  [k \in 1..Len(all) |-> SubSeq(all[k], 1, Len(all[k]) - 1)]

\* The batches of the rewritten file, each without its control record.
RewrittenBatches ==
    LET all == BatchesOf(newfile)
    IN  [k \in 1..Len(all) |-> SubSeq(all[k], 1, Len(all[k]) - 1)]

\* The file control record repeats the input's count, hash and totals, and
\* the batches are the input's, numbers included.
RewrittenAsInput ==
    /\ FileControlOf(newfile).cnt = Last(infile).cnt
    /\ FileControlOf(newfile).hash = Last(infile).hash
    /\ FileControlOf(newfile).debit = Last(infile).debit
    /\ FileControlOf(newfile).credit = Last(infile).credit
    /\ RewrittenBatches = InputBatches

\* The k-th batch of the input has the number k and holds an entry line.
InputDenselyNumbered ==
    \A k \in 1..Len(InputBatches) :
        /\ InputBatches[k][1].last7 = k
        /\ Len(InputBatches[k]) > 1

(* C10 as claimed: for a well-formed input with zero on-us entries and   *)
(* correct control records, the rewritten file control repeats the       *)
(* input's count, hash and totals, and the rewritten batches carry the   *)
(* input's numbers and lines.                                            *)
C10_ZeroOnUsUnchanged ==
    (/\ newfile # <<>>
     /\ InputComplete /\ InputWellFormed /\ InputControlsCorrect
     /\ ZeroOnUs) => RewrittenAsInput

\* Every entry of the input has a transaction code ending in 2 or in 7.
InputCodesTotalled ==
    \A i \in 1..Len(infile) : infile[i].typ = "6" => infile[i].tc % 10 \in {2, 7}

(* C10 as amended: the same, for an input whose batches are numbered     *)
(* 1, 2, 3, ..., hold at least one entry line each, and whose entries    *)
(* all have a transaction code ending in 2 or in 7.                      *)
C10_ZeroOnUsUnchangedDense ==
    (/\ newfile # <<>>
     /\ InputComplete /\ InputWellFormed /\ InputControlsCorrect
     /\ ZeroOnUs /\ InputDenselyNumbered /\ InputCodesTotalled)
        => RewrittenAsInput

\* Two batches with a debit and a credit, no on-us entry.
C10_Witness ==
    /\ newfile # <<>>
    /\ InputComplete /\ InputWellFormed /\ InputControlsCorrect
    /\ ZeroOnUs /\ InputDenselyNumbered /\ InputCodesTotalled
    /\ Len(InputBatches) = 2
    /\ Last(infile).debit > 0 /\ Last(infile).credit > 0

----------------------------------------------------------------------------
(* One iteration of the parse loop, seen from outside. *)

\* The step reads one line of the input.
ReadStep == Len(infile') = Len(infile) + 1

\* The line the step reads.
NewLine == infile'[Len(infile')]

\* The current batch was opened by a '5' line.
BatchOpen == current_batch # <<>> /\ current_batch[1].typ = "5"

\* A detail that passed the on-us test is held, awaiting its addenda.
CandidateHeld == onus_data # <<>>

\* No candidate is held and the flag is down.
NothingPending(held, flag) == held = <<>> /\ ~Truthy(flag)

\* The ledger-offset line for the amount amt.
LedgerOffsetLine(amt) ==
    SwimLine(GL_ACCTNBR, "GLD", amt, "DNA ACH GL debit offset", EmptyStr)

----------------------------------------------------------------------------
(* C11.  When a candidate is held and the next line is a '7' line        *)
(* without the marker, the candidate's detail line and then that addenda *)
(* line are appended to the current batch, the on-us list is unchanged   *)
(* and nothing is pending afterwards; and when a run extracts no on-us   *)
(* record, the settlement file is the ledger-offset line alone, with     *)
(* amount 0.                                                             *)
C11_Disqualified ==
    /\ [][(/\ ReadStep /\ BatchOpen /\ CandidateHeld
           /\ NewLine.typ = "7" /\ ~NewLine.marker)
          => /\ current_batch' = current_batch \o <<onus_data[1].line, NewLine>>
             /\ all_onus_data' = all_onus_data
             /\ NothingPending(onus_data', is_onus')]_vars
    /\ []((swimfile # <<>> /\ all_onus_data = <<>>)
              => swimfile = <<LedgerOffsetLine(0)>>)

----------------------------------------------------------------------------
(* C12.  When the line read last is a held candidate's detail line and   *)
(* the next line is a '6' or an '8' line, the detail line is appended    *)
(* to the current batch (before the new detail, or before the batch is   *)
(* stored), the on-us list is unchanged and the candidate is no longer   *)
(* pending.                                                              *)

\* The line read last is the held candidate's: no addenda has arrived.
CandidateJustRead ==
    /\ CandidateHeld
    /\ infile # <<>>
    /\ infile[Len(infile)] = onus_data[1].line

\* seq begins with the lines of head.
BeginsWith(seq, head) ==
    Len(seq) >= Len(head) /\ SubSeq(seq, 1, Len(head)) = head

C12_NeverElided ==
    [][(/\ ReadStep /\ BatchOpen /\ CandidateJustRead
        /\ NewLine.typ \in {"6", "8"})
       => /\ all_onus_data' = all_onus_data
          /\ NewLine.typ = "8" =>
                /\ newach_data' =
                       Append(newach_data,
                              Append(current_batch, onus_data[1].line))
                /\ current_batch' = <<>>
                /\ NothingPending(onus_data', is_onus')
          /\ NewLine.typ = "6" =>
                /\ BeginsWith(current_batch',
                              Append(current_batch, onus_data[1].line))
                /\ \/ NothingPending(onus_data', is_onus')
                   \/ /\ onus_data' # <<>>
                      /\ onus_data'[1].line = NewLine]_vars

----------------------------------------------------------------------------
(* The stages of a run and its calls on the database connection. *)

\* The stages in the order run() calls them.
StageOrder ==
    <<"parseACHFile", "writeNewACHFile", "getSwimFileInfo", "getholdbizdate",
      "loopThroughOnUsDataCreateSWIMFileAndStageHolds">>

IsPrefix(s, t) == Len(s) <= Len(t) /\ s = SubSeq(t, 1, Len(s))

\* op was called on the database connection.
Called(op) == \E i \in 1..Len(dbh) : dbh[i].op = op

\* The on-us records for which insert_ach_hold was called, in call order.
InsertsAttempted ==
    LET calls == SelectSeq(dbh, LAMBDA c : c.op = "insert_ach_hold")
    IN  [i \in 1..Len(calls) |-> calls[i].rec]

----------------------------------------------------------------------------
(* C13.  The stages run in the fixed order; when a stage fails the run   *)
(* ends in failure with rollback called and commit not called, nothing   *)
(* runs after it; rollback is called on failure only, and commit only    *)
(* after all five stages.                                                *)
C13_FailFast ==
    /\ [](IsPrefix(stages, StageOrder))
    /\ [](pc = "failed" =>
              /\ stages # <<>>
              /\ Called("rollback")
              /\ ~Called("commit"))
    /\ [](Called("rollback") => pc = "failed")
    /\ [](Called("commit") => stages = StageOrder /\ pc = "done")
    /\ [][pc = "failed" => UNCHANGED vars]_vars

\* The last stage fails after holds were inserted.
C13_Witness ==
    /\ pc = "failed"
    /\ stages = StageOrder
    /\ Called("insert_ach_hold")

\* The second stage fails: the later three never run.
C13_WitnessEarly ==
    /\ pc = "failed"
    /\ Len(stages) = 2
    /\ all_onus_data # <<>>
    /\ swimfile = <<>> /\ holddate = ""

----------------------------------------------------------------------------
(* The settlement file a list of on-us records calls for. *)

\* The settlement line of one on-us record.
SettlementLine(rec) ==
    SwimLine(rec.acctnbr, "DEPD", rec.amt, "OAO External Transfer",
             rec.trace_nbr)

\* One line per record, in order, then the ledger-offset line for their sum.
SettlementFor(recs) ==
    [i \in 1..Len(recs) |-> SettlementLine(recs[i])]
        \o <<LedgerOffsetLine(SumSeq([i \in 1..Len(recs) |-> recs[i].amt]))>>

----------------------------------------------------------------------------
(* C14.  In report-only mode insert_ach_hold and commit are never        *)
(* called, and in either mode the settlement file written is the one     *)
(* the on-us records call for.                                           *)
C14_ReportOnly ==
    /\ rptonly = "Y" => ~Called("insert_ach_hold") /\ ~Called("commit")
    /\ swimfile # <<>> => swimfile = SettlementFor(all_onus_data)

\* A report-only run with two on-us records ran to its end.
C14_Witness ==
    /\ rptonly = "Y"
    /\ pc = "done"
    /\ Len(all_onus_data) = 2
    /\ Len(swimfile) = 3

----------------------------------------------------------------------------
(* C15.  In normal mode, once the settlement stage is over,              *)
(* insert_ach_hold has been called once for each on-us record, in order, *)
(* whichever of the calls failed; the settlement file has a line for     *)
(* every record; and the run goes on to commit.                          *)
C15_SoftFailure ==
    rptonly = "N" =>
        /\ stages = StageOrder =>
               InsertsAttempted = [i \in 1..Len(all_onus_data) |-> i]
        /\ pc \in {"finish", "done"} =>
               swimfile = SettlementFor(all_onus_data)
        /\ pc = "finish" => ENABLED Finish
        /\ pc = "done" => Called("commit")

\* Two on-us records; the first insert failed, the second did not; committed.
C15_Witness ==
    /\ rptonly = "N"
    /\ pc = "done"
    /\ Len(all_onus_data) = 2
    /\ \E i, j \in 1..Len(dbh) :
           /\ i < j
           /\ dbh[i] = DbCall("insert_ach_hold", 1, FALSE)
           /\ dbh[j] = DbCall("insert_ach_hold", 2, TRUE)
    /\ Called("commit")

----------------------------------------------------------------------------
\* What the validator is specified to pass: nine characters, each an ASCII
\* digit, the third and fourth a district of 01-12, 20-29 or 30-39, and the
\* weighted sum a multiple of ten.
IsRoutingNumber(s) ==
    /\ Len(s) = 9
    /\ \A i \in 1..9 : s[i].cls = "ascii"
    /\ 10 * s[3].val + s[4].val \in (1..12) \cup (20..29) \cup (30..39)
    /\ (3 * s[1].val + 7 * s[2].val + s[3].val + 3 * s[4].val + 7 * s[5].val
        + s[6].val + 3 * s[7].val + 7 * s[8].val + s[9].val) % 10 = 0

\* C16: validate_route_number returns pass exactly when its input is nine
\* digits with a valid district in positions 3-4 and a weighted sum that is
\* 0 mod 10, and returns fail in every other case.
C16_Validator ==
    route_valid # "not called" =>
        /\ route_valid \in {"True", "False"}
        /\ route_valid = "True" <=> IsRoutingNumber(rtnbr_in)

----------------------------------------------------------------------------
\* A candidate is pending: one is held and the flag is up.
CandidatePending == CandidateHeld /\ Truthy(is_onus)

\* The held candidate, finalized with the description of the line.
Finalized(line) == [onus_data[1] EXCEPT !.description = Description(line)]

\* The input positions of the lines placed in a batch, stored or current.
BatchedPositions == StoredPositions \cup PositionsOf(current_batch)

\* C17: whenever a candidate is pending and a '7' line with the marker is
\* read, whatever its addenda type code and last characters, the candidate
\* with the extracted description is appended to the on-us list, nothing is
\* pending afterwards, and neither the detail line nor that addenda line is
\* placed in a batch, then or later.
C17_MarkerFinalizes ==
    /\ [][(ReadStep /\ CandidatePending /\ NewLine.typ = "7" /\ NewLine.marker)
          => /\ all_onus_data' = Append(all_onus_data, Finalized(NewLine))
             /\ NothingPending(onus_data', is_onus')
             /\ current_batch' = current_batch
             /\ newach_data' = newach_data]_vars
    /\ [](\A i \in 1..(Len(infile) - 1) :
            (/\ infile[i].typ = "6" /\ IsOnUsDetail(infile[i])
             /\ ~infile[i].bad /\ Truthy(infile[i].last7)
             /\ infile[i + 1].typ = "7" /\ infile[i + 1].marker)
            => {i, i + 1} \cap BatchedPositions = {})

----------------------------------------------------------------------------
\* The batches, stored or current, that a '5' line opened.
OpenedBatches ==
    {b \in {newach_data[k] : k \in 1..Len(newach_data)} \cup {current_batch} :
        b # <<>> /\ b[1].typ = "5"}

\* C18: after a '5' line is read the current batch is that line alone and
\* no candidate is pending, whatever was read before it; and no line read
\* before a '5' line is placed in the batch that line opened.
C18_HeaderDiscards ==
    /\ [][(ReadStep /\ NewLine.typ = "5")
          => /\ current_batch' = <<NewLine>>
             /\ NothingPending(onus_data', is_onus')]_vars
    /\ [](\A b \in OpenedBatches : \A k \in 1..Len(b) : b[k].pos >= b[1].pos)

----------------------------------------------------------------------------
\* C19: every record of the on-us list was built from a '6' line of the
\* input whose routing number is the institution's own and whose
\* transaction code is 22 or 32, and carries that line's fields, so that
\* the transaction-code table of create_swim_line maps its code.
C19_OnlyQualifying ==
    \A r \in 1..Len(all_onus_data) :
        LET rec == all_onus_data[r]
        IN  /\ rec.line.pos \in 1..Len(infile)
            /\ rec.line = infile[rec.line.pos]
            /\ rec.line.typ = "6"
            /\ rec.line.rtnbr = FTFCU_ROUTENBR
            /\ rec.line.tc \in {22, 32}
            /\ rec.rtnbr = rec.line.rtnbr
            /\ rec.ach_tc = rec.line.tc
            /\ ~create_swim_line_raises(rec)

\* A run ended with a settlement line for a record of code 22 and one for
\* a record of code 32, among entries for other institutions.
C19_Witness ==
    /\ pc = "done"
    /\ \E r \in 1..Len(all_onus_data) : all_onus_data[r].ach_tc = 22
    /\ \E r \in 1..Len(all_onus_data) : all_onus_data[r].ach_tc = 32
    /\ \E i \in 1..Len(infile) :
           infile[i].typ = "6" /\ ~IsOnUsDetail(infile[i])
    /\ Len(swimfile) = Len(all_onus_data) + 1

----------------------------------------------------------------------------
\* A record whose transaction code the table of create_swim_line does not
\* map, and the lists made of the on-us list and one such record.
UnmappedRecord ==
    Candidate(DetailLine(27, FTFCU_ROUTENBR, 1000, 100, 1))
WithUnmapped ==
    {SubSeq(all_onus_data, 1, k) \o <<UnmappedRecord>>
        \o SubSeq(all_onus_data, k + 1, Len(all_onus_data)) :
        k \in 0..Len(all_onus_data)}

\* The line is the ledger-offset line of some amount.
IsLedgerOffset(l) == l.tc = "GLD" /\ l.desc = "DNA ACH GL debit offset"

\* C20: a settlement file written for N on-us records has N + 1 lines; the
\* first N are the lines of the records, in the order the records were
\* extracted from the input; the last is the ledger-offset line, which
\* occurs nowhere else; the file is written once the stage has succeeded;
\* and when the line of a record cannot be built, no file is written.
C20_SettlementShape ==
    LET N == Len(all_onus_data)
    IN  /\ swimfile # <<>> =>
              /\ Len(swimfile) = N + 1
              /\ \A i \in 1..N :
                     /\ swimfile[i] = SettlementLine(all_onus_data[i])
                     /\ ~IsLedgerOffset(swimfile[i])
              /\ IsLedgerOffset(swimfile[N + 1])
        /\ \A i \in 1..N : \A j \in 1..N :
               i < j => all_onus_data[i].line.pos < all_onus_data[j].line.pos
        /\ pc \in {"finish", "done"} => swimfile # <<>>
        /\ pc = "loop" =>
               \A recs \in WithUnmapped : \A failing \in SUBSET (1..N) :
                   /\ BuildSwimLines(recs, failing).raised
                   /\ SwimFileAfter(BuildSwimLines(recs, failing)) = <<>>

\* A settlement file of three lines was written for two on-us records of
\* different accounts.
C20_Witness ==
    /\ Len(all_onus_data) = 2
    /\ Len(swimfile) = 3
    /\ swimfile[1].acct # swimfile[2].acct
    /\ swimfile[3].amt = all_onus_data[1].amt + all_onus_data[2].amt

----------------------------------------------------------------------------
\* The lines of a rebuilt batch between its header and its control record.
KeptLines(batch) == SubSeq(batch, 2, Len(batch) - 1)

\* The sum of the amounts of the detail lines of `lines` whose transaction
\* code ends in the digit d.
AmountEndingIn(lines, d) ==
    LET sel == SelectSeq(lines, LAMBDA l : l.typ = "6" /\ l.tc % 10 = d)
    IN  SumSeq([i \in 1..Len(sel) |-> sel[i].amt])

\* C21: in every batch of the rewritten file the lines between the header
\* and the control record are '6' and '7' lines; the control record's count
\* is their number, its debit total the sum of the amounts of the details
\* whose code ends in 7 and its credit total the sum for the codes that end
\* in 2, so that a detail of any other code adds to neither.
C21_BatchTotals ==
    \A b \in 1..Len(BatchesOf(newfile)) :
        LET batch == BatchesOf(newfile)[b]
            kept == KeptLines(batch)
        IN  /\ batch[1].typ = "5"
            /\ \A k \in 1..Len(kept) : kept[k].typ \in {"6", "7"}
            /\ Last(batch).cnt = Len(kept)
            /\ Last(batch).debit = AmountEndingIn(kept, 7)
            /\ Last(batch).credit = AmountEndingIn(kept, 2)

\* A rebuilt batch with a debit, a credit, a detail of another code and an
\* addenda line.
C21_Witness ==
    \E b \in 1..Len(BatchesOf(newfile)) :
        LET kept == KeptLines(BatchesOf(newfile)[b])
        IN  /\ \E k \in 1..Len(kept) : kept[k].typ = "7"
            /\ \E k \in 1..Len(kept) : kept[k].typ = "6" /\ kept[k].tc % 10 = 7
            /\ \E k \in 1..Len(kept) : kept[k].typ = "6" /\ kept[k].tc % 10 = 2
            /\ \E k \in 1..Len(kept) :
                   kept[k].typ = "6" /\ kept[k].tc % 10 \notin {2, 7}

----------------------------------------------------------------------------
\* The sum of f over the batches of a rebuilt file.
OverBatches(file, f(_)) ==
    SumSeq([b \in 1..Len(BatchesOf(file)) |-> f(BatchesOf(file)[b])])

\* The stored batches that rebuild_batch leaves out: a header alone.
DroppedBatches == {b \in 1..Len(newach_data) : Len(newach_data[b]) = 1}

C22_WitnessDropped ==
    /\ DroppedBatches # {}
    /\ Len(BatchesOf(newfile)) = 1
    /\ FileControlOf(newfile).cnt > 0

----------------------------------------------------------------------------
\* The places in the call history where op was called.
CallsOf(op) == {i \in 1..Len(dbh) : dbh[i].op = op}

\* C23: in every run commit and rollback are not both called; commit is
\* called at most once, only when all five stages have run without failure
\* and both output files are written, and only when the report-only flag is
\* not set; and every insert_ach_hold of the run comes before the commit.
C23_CommitDiscipline ==
    /\ ~(Called("commit") /\ Called("rollback"))
    /\ Cardinality(CallsOf("commit")) <= 1
    /\ Called("commit") =>
           /\ stages = StageOrder
           /\ pc = "done"
           /\ newfile # <<>>
           /\ swimfile # <<>>
           /\ rptonly = "N"
    /\ \A i \in CallsOf("insert_ach_hold") : \A j \in CallsOf("commit") : i < j
    /\ \A j \in CallsOf("commit") : \A k \in (j + 1)..Len(dbh) :
           dbh[k].op = "close"

\* A run that committed after two holds were inserted.
C23_Witness ==
    /\ Called("commit")
    /\ Cardinality(CallsOf("insert_ach_hold")) = 2
    /\ \A i \in CallsOf("insert_ach_hold") : dbh[i].ok

\* A run that rolled back after a hold was inserted.
C23_WitnessRollback ==
    /\ Called("rollback")
    /\ \E i \in CallsOf("insert_ach_hold") : dbh[i].ok

----------------------------------------------------------------------------
\* The company identification of line ctl has, at each of its first n
\* places, the character the company identification of line hdr has there.
SameCompanyId(ctl, hdr, n) ==
    \A i \in 1..n :
        /\ i <= Len(ctl.cid)
        /\ i <= Len(hdr.cid)
        /\ ctl.cid[i] = hdr.cid[i]

\* C24: in every batch of the rewritten file the control record carries the
\* service-class code of the batch's header in the input, all ten
\* characters of the header's company identification, and the header's
\* originating-DFI identification.
C24_HeaderFieldsCopied ==
    \A b \in 1..Len(BatchesOf(newfile)) :
        LET batch == BatchesOf(newfile)[b]
            hdr == infile[batch[1].pos]
        IN  /\ hdr.typ = "5"
            /\ Last(batch).scc = hdr.scc
            /\ SameCompanyId(Last(batch), hdr, 10)
            /\ Last(batch).odfi = hdr.odfi

----------------------------------------------------------------------------
\* The stored batches that begin with a '5' line.
HeadedBatches ==
    {b \in 1..Len(newach_data) : newach_data[b][1].typ = "5"}

\* C25: the lines of every stored batch opened by a '5' line are lines of
\* the input, unchanged, in the order of the input and none twice; all of
\* them were read after that '5' line and before the '8' line that closed
\* the batch, with no other '5' or '8' line read between them; so a
\* candidate flushed late is never placed after a line that followed it.
C25_OrderPreserved ==
    \A b \in HeadedBatches :
        LET batch == newach_data[b]
        IN  /\ \A k \in 1..Len(batch) :
                   /\ batch[k].pos \in 1..Len(infile)
                   /\ batch[k] = infile[batch[k].pos]
            /\ \A k \in 1..(Len(batch) - 1) : batch[k].pos < batch[k + 1].pos
            /\ \A j \in (batch[1].pos + 1)..Last(batch).pos :
                   infile[j].typ \notin {"5", "8"}
            /\ \E e \in (Last(batch).pos + 1)..Len(infile) :
                   /\ infile[e].typ = "8"
                   /\ \A j \in (Last(batch).pos + 1)..(e - 1) :
                          infile[j].typ \notin {"5", "8"}

====
